---- MODULE Spec2Model ----
(***************************************************************************)
(* climgr (src-tauri): process lifecycle, safe-mode gate and global        *)
(* shortcut synchronisation.                                               *)
(*                                                                         *)
(* Threads.  execute_command is an async command: its body runs on a       *)
(* worker (spawn_blocking).  The global-shortcut handler runs              *)
(* run_command_script directly on the event callback thread.  The other    *)
(* commands (kill_command, add/update/delete_command, update_config) are   *)
(* plain `fn` commands and are served one at a time by one thread, named   *)
(* "main" here; kill_command is split into its steps because they          *)
(* interleave with the workers.                                            *)
(*                                                                         *)
(* Strings the code inspects (kill_script, shortcut) are sequences of      *)
(* characters, so trim() and is_empty() are computed.  Option<T> is a      *)
(* sequence of length 0 (None) or 1 (Some).                                *)
(*                                                                         *)
(* commands.json holds the JSON text serde_json writes, a sequence of      *)
(* tokens here; every read of the store deserializes it.  The functions of *)
(* store.rs are also applied by themselves, on inputs of their own, under  *)
(* FnSpec.                                                                 *)
(***************************************************************************)
EXTENDS Integers, Sequences, FiniteSets, TLC

VARIABLES
    storeFile,    \* commands.json: absent, empty (zero bytes) or holding a list of Command
    configFile,   \* config.json: absent or holding a Config record
    processes,    \* ProcessManager.processes: command id -> pid (a function on the tracked ids)
    procs,        \* OS process table: pid -> "unborn" | "running" | "exited" | "killed" | "gone"
    registered,   \* OS-level set of registered global shortcuts
    th,           \* executor threads (workers and the shortcut handler)
    main,         \* the thread serving the synchronous commands
    calls,        \* commands and shortcut presses received since setup
    ret,          \* what the step just taken returned to its caller (or logged), if anything
    fn            \* a function of store.rs applied by itself: its input and its outcome

vars == <<storeFile, configFile, processes, procs, registered, th, main, calls, ret, fn>>

----------------------------------------------------------------------------
(* Bounds *)

MaxPid == 2      \* processes the OS will spawn
MaxCmds == 2     \* length of the stored command list
MaxCalls == 2    \* commands and shortcut presses after setup
MaxPath == 3     \* characters of a path given to expand_path

----------------------------------------------------------------------------
(* Data model (models.rs) *)

None == <<>>
Some(x) == <<x>>

\* id, name and script are opaque to the code and are held as one symbol
\* each; name and description are used by no operation, and a command is
\* given its id as name and no description unless said otherwise
Command(id, script, kill_script, shortcut) ==
    [id |-> id, name |-> id, script |-> script, kill_script |-> kill_script,
     shortcut |-> shortcut, description |-> None]

\* commands_path and accessibility_notice_dismissed are never set here: the
\* store stays at its default location
Config(safe_mode) ==
    [safe_mode |-> safe_mode, commands_path |-> None, accessibility_notice_dismissed |-> None]

Ids == {"a", "b"}

\* shortcut strings: "1" and "2" stand for key combinations the registrar
\* accepts, "x" for one it refuses, " " is whitespace
Shortcuts == {<<"1">>, <<"2">>, <<"x">>}

\* the commands add_command and update_command are called with
CommandPool ==
    { Command("a", "s1", None, Some(<<"1">>)),
      Command("a", "s2", Some(<<" ">>), Some(<<"x">>)),
      Command("b", "s1", Some(<<"k">>), Some(<<"1">>)),
      Command("b", "s2", Some(<<>>), Some(<<" ">>)) }

Ok(v) == [ok |-> TRUE, val |-> v]
Err(e) == [ok |-> FALSE, err |-> e]

----------------------------------------------------------------------------
(* serde_json: the text of commands.json is a sequence of tokens; the       *)
(* content of a string token is the escaped sequence of its characters      *)

\* a string is written with '"', '\' and the control characters escaped
RECURSIVE Escape(_)
Escape(chars) ==
    IF chars = <<>> THEN <<>>
    ELSE LET c == Head(chars)
         IN  (IF c \in {"\"", "\\"} THEN <<"\\", c>>
              ELSE IF c = "\n" THEN <<"\\", "n">>
              ELSE IF c = "\t" THEN <<"\\", "t">>
              ELSE <<c>>) \o Escape(Tail(chars))

\* and read back: a '\' announces an escaped character
RECURSIVE Unescape(_)
Unescape(chars) ==
    IF chars = <<>> THEN <<>>
    ELSE IF Head(chars) = "\\" /\ Len(chars) >= 2
         THEN LET c == chars[2]
              IN  <<IF c = "n" THEN "\n" ELSE IF c = "t" THEN "\t" ELSE c>>
                     \o Unescape(SubSeq(chars, 3, Len(chars)))
         ELSE <<Head(chars)>> \o Unescape(Tail(chars))

Token(t) == [t |-> t]
Key(k) == [t |-> "key", k |-> k]
Str(chars) == [t |-> "str", s |-> Escape(chars)]
Null == [t |-> "null"]

\* (mutant) an empty string is written as null
SerializeOption_EmptyAsNull(o) == IF o = None \/ o[1] = <<>> THEN Null ELSE Str(o[1])

\* Serialize for Option<String>: null or the string
SerializeOption(o) == IF o = None THEN Null ELSE Str(o[1])

\* #[derive(Serialize)] for Command: an object with the six fields in order
SerializeCommand(c) ==
    << Token("{"),
       Key("id"), Str(<<c.id>>),
       Key("name"), Str(<<c.name>>),
       Key("script"), Str(<<c.script>>),
       Key("kill_script"), SerializeOption(c.kill_script),
       Key("shortcut"), SerializeOption(c.shortcut),
       Key("description"), SerializeOption(c.description),
       Token("}") >>

RECURSIVE SerializeElements(_)
SerializeElements(commands) ==
    IF commands = <<>> THEN <<>>
    ELSE SerializeCommand(Head(commands)) \o SerializeElements(Tail(commands))

\* serde_json::to_writer_pretty(writer, commands): an array of objects
to_writer_pretty(commands) == <<Token("[")>> \o SerializeElements(commands) \o <<Token("]")>>

\* the value of a key among the tokens from..to of an object: the token that
\* follows the key, or Missing
Missing == [t |-> "missing"]
FieldOf(text, from, to, k) ==
    LET hits == {j \in from..(to - 1) : text[j].t = "key" /\ text[j].k = k}
    IN  IF hits = {} THEN Missing
        ELSE text[(CHOOSE j \in hits : \A h \in hits : j <= h) + 1]

\* #[derive(Deserialize)] for Command, given the value found for each field:
\* a String field must be there and be a string; an Option<String> field is
\* None when it is null or not there
IsString(token) == token.t = "str"
IsOption(token) == token.t \in {"str", "null", "missing"}
OptionOf(token) == IF token.t = "str" THEN Some(Unescape(token.s)) ELSE None
CommandOf(id, name, script, kill_script, shortcut, description) ==
    IF /\ IsString(id) /\ IsString(name) /\ IsString(script)
       /\ IsOption(kill_script) /\ IsOption(shortcut) /\ IsOption(description)
    THEN Ok([id |-> Unescape(id.s)[1],
             name |-> Unescape(name.s)[1],
             script |-> Unescape(script.s)[1],
             kill_script |-> OptionOf(kill_script),
             shortcut |-> OptionOf(shortcut),
             description |-> OptionOf(description)])
    ELSE Err("PersistenceError")

\* the object whose fields are the tokens from..to
DeserializeCommand(text, from, to) ==
    CommandOf(FieldOf(text, from, to, "id"), FieldOf(text, from, to, "name"),
              FieldOf(text, from, to, "script"), FieldOf(text, from, to, "kill_script"),
              FieldOf(text, from, to, "shortcut"), FieldOf(text, from, to, "description"))

\* the index of the first "}" at or after i, 0 if there is none
RECURSIVE ObjectEnd(_, _)
ObjectEnd(text, i) ==
    IF i > Len(text) THEN 0
    ELSE IF text[i].t = "}" THEN i ELSE ObjectEnd(text, i + 1)

\* an element and the elements after it: an error in either is the error
PushFront(c, rest) ==
    IF c.ok /\ rest.ok THEN Ok(<<c.val>> \o rest.val) ELSE Err("PersistenceError")

\* the elements of the array from token i on, up to the closing "]";
\* ElementsFrom reads the object that opens at i and closes at end
RECURSIVE DeserializeElements(_, _)
RECURSIVE ElementsFrom(_, _, _)
ElementsFrom(text, i, end) ==
    IF end = 0 THEN Err("PersistenceError")
    ELSE PushFront(DeserializeCommand(text, i + 1, end - 1), DeserializeElements(text, end + 1))

DeserializeElements(text, i) ==
    IF i > Len(text) THEN Err("PersistenceError")
    ELSE IF text[i].t = "]"
         THEN IF i = Len(text) THEN Ok(<<>>) ELSE Err("PersistenceError")
    ELSE IF text[i].t # "{" THEN Err("PersistenceError")
    ELSE ElementsFrom(text, i, ObjectEnd(text, i))

\* serde_json::from_reader::<Vec<Command>>: no input at all is an error (EOF
\* while parsing a value), as is anything but an array of commands
from_reader(text) ==
    IF text = <<>> \/ text[1].t # "[" THEN Err("PersistenceError")
    ELSE DeserializeElements(text, 2)

----------------------------------------------------------------------------
(* files on disk *)

Absent == [kind |-> "absent"]
EmptyFile == [kind |-> "empty", text |-> <<>>]
ListFile(commands) == [kind |-> "list", text |-> to_writer_pretty(commands)]
ConfigFile(config) == [kind |-> "config", config |-> config]

\* add_command does not check for duplicate ids: the last store is what two
\* adds of id "a" leave
InitStores ==
    { Absent, EmptyFile,
      ListFile(<<Command("a", "s1", None, Some(<<"1">>)),
                 Command("b", "s2", Some(<<"k">>), Some(<<"2">>))>>),
      ListFile(<<Command("a", "s1", None, Some(<<"1">>)),
                 Command("a", "s2", Some(<<" ">>), Some(<<"x">>))>>) }

Pids == 1..MaxPid

Workers == {"w1", "w2"}
Handler == "h"
Threads == Workers \cup {Handler}

----------------------------------------------------------------------------
(* str::trim / is_empty *)

IsWhitespace(c) == c \in {" ", "\t", "\n"}

RECURSIVE TrimStart(_)
TrimStart(s) ==
    IF s = <<>> THEN <<>>
    ELSE IF IsWhitespace(Head(s)) THEN TrimStart(Tail(s)) ELSE s

RECURSIVE TrimEnd(_)
TrimEnd(s) ==
    IF s = <<>> THEN <<>>
    ELSE IF IsWhitespace(s[Len(s)]) THEN TrimEnd(SubSeq(s, 1, Len(s) - 1)) ELSE s

Trim(s) == TrimEnd(TrimStart(s))

IsEmpty(s) == Len(s) = 0

----------------------------------------------------------------------------
(* store.rs *)

\* (mutant) every '~' of the path is replaced by the home directory
RECURSIVE expand_path_All(_, _)
expand_path_All(path_str, home) ==
    IF path_str = <<>> \/ home = None THEN path_str
    ELSE (IF Head(path_str) = "~" THEN home[1] ELSE <<Head(path_str)>>)
            \o expand_path_All(Tail(path_str), home)

\* store::expand_path; home is std::env::var("HOME"), None when it is an
\* error.  strip_prefix('~') takes the first character off.
expand_path(path_str, home) ==
    IF path_str # <<>> /\ Head(path_str) = "~" /\ home # None
    THEN home[1] \o Tail(path_str)
    ELSE path_str

\* (mutant) the file is opened without the test for its existence
get_commands_Open(file) ==
    IF file.kind = "absent" THEN Err("PersistenceError") ELSE from_reader(file.text)

\* store::get_commands: a missing file is the empty list; otherwise the
\* file's text is deserialized, and a text that is no JSON list (zero bytes)
\* is an error
get_commands(file) ==
    IF file.kind = "absent" THEN Ok(<<>>) ELSE from_reader(file.text)

\* store::save_commands: the serialized list replaces the file
save_commands(commands) == ListFile(commands)

\* store::get_config: a missing file is the default record
get_config(file) ==
    IF file.kind = "absent" THEN Config(FALSE) ELSE file.config

\* (mutant) the write is lost
save_config_Lost(config) == configFile

\* store::save_config: the record replaces the file
save_config(config) == ConfigFile(config)

----------------------------------------------------------------------------
(* lookups *)

\* the index of the first command with this id, 0 if there is none
RECURSIVE PositionOfId(_, _, _)
PositionOfId(commands, id, i) ==
    IF i > Len(commands) THEN 0
    ELSE IF commands[i].id = id THEN i ELSE PositionOfId(commands, id, i + 1)

\* the index of the first command with this shortcut, 0 if there is none
RECURSIVE PositionOfShortcut(_, _, _)
PositionOfShortcut(commands, shortcut, i) ==
    IF i > Len(commands) THEN 0
    ELSE IF commands[i].shortcut = shortcut THEN i ELSE PositionOfShortcut(commands, shortcut, i + 1)

\* (mutant) the first command, whatever its id
find_by_id_First(commands, command_id) ==
    IF commands = <<>> THEN None ELSE Some(commands[1])

\* commands.iter().find(|c| c.id == command_id): the first match
find_by_id(commands, command_id) ==
    LET i == PositionOfId(commands, command_id, 1)
    IN  IF i = 0 THEN None ELSE Some(commands[i])

\* (mutant) the first command that has a shortcut, whatever was pressed
find_by_shortcut_Any(commands, shortcut_str) ==
    LET hits == {i \in 1..Len(commands) : commands[i].shortcut # None}
    IN  IF hits = {} THEN None ELSE Some(commands[CHOOSE i \in hits : \A j \in hits : i <= j])

\* commands.iter().find(|c| c.shortcut.as_deref() == Some(shortcut_str))
find_by_shortcut(commands, shortcut_str) ==
    LET i == PositionOfShortcut(commands, Some(shortcut_str), 1)
    IN  IF i = 0 THEN None ELSE Some(commands[i])

\* if let Some(kill_script) = &command.kill_script { if !kill_script.trim().is_empty()
HasKillScript(command) ==
    /\ command.kill_script # None
    /\ ~IsEmpty(Trim(command.kill_script[1]))

----------------------------------------------------------------------------
(* Shortcut Synchronizer: refresh_shortcuts *)

\* the shortcut strings the registrar refuses: malformed, or taken by
\* another application
Rejected == {<<"x">>}

\* global_shortcut().register(shortcut): the registrar refuses a malformed
\* or conflicting shortcut, and one that is registered already
register(reg, shortcut) ==
    IF shortcut \in Rejected \/ shortcut \in reg THEN Err("register") ELSE Ok(reg \cup {shortcut})

\* the body of the loop over the commands: best-effort registration
RegisterOne(reg, command) ==
    IF command.shortcut # None /\ ~IsEmpty(Trim(command.shortcut[1]))
    THEN LET r == register(reg, command.shortcut[1])
         IN  IF r.ok THEN r.val ELSE reg
    ELSE reg

\* (mutant) the first refused registration ends the loop
RECURSIVE RegisterAll_Abort(_, _)
RegisterAll_Abort(commands, reg) ==
    IF commands = <<>> THEN reg
    ELSE LET c == Head(commands)
             attempted == c.shortcut # None /\ ~IsEmpty(Trim(c.shortcut[1]))
         IN  IF attempted /\ ~register(reg, c.shortcut[1]).ok THEN reg
             ELSE RegisterAll_Abort(Tail(commands), RegisterOne(reg, c))

\* for command in commands { .. }
RECURSIVE RegisterAll(_, _)
RegisterAll(commands, reg) ==
    IF commands = <<>> THEN reg
    ELSE RegisterAll(Tail(commands), RegisterOne(reg, Head(commands)))

\* if let Ok(commands) = store::get_commands(&path) { for command in commands { .. } }
\* on a registrar with nothing registered: a failed read registers nothing
RegisterStored(commands) == IF commands.ok THEN RegisterAll(commands.val, {}) ELSE {}

\* (mutant) the registrations run while the old set is still registered, so
\* what was registered before the call is refused as a duplicate, and
\* unregister_all then drops the old set
refresh_shortcuts_Late(file, reg, unregisterOk) ==
    IF ~unregisterOk THEN [ok |-> FALSE, reg |-> reg]
    ELSE LET commands == get_commands(file)
         IN  [ok |-> TRUE,
              reg |-> IF commands.ok THEN RegisterAll(commands.val, reg) \ reg ELSE {}]

\* (mutant) a store that cannot be read fails the refresh
refresh_shortcuts_Strict(file, reg, unregisterOk) ==
    IF ~unregisterOk THEN [ok |-> FALSE, reg |-> reg]
    ELSE [ok |-> get_commands(file).ok, reg |-> RegisterStored(get_commands(file))]

\* refresh_shortcuts: unregister_all (its failure is propagated), then a
\* store read whose failure is ignored, then the registrations.
\* unregisterOk is the outcome of unregister_all.
refresh_shortcuts(file, reg, unregisterOk) ==
    IF ~unregisterOk THEN [ok |-> FALSE, reg |-> reg]
    ELSE [ok |-> TRUE, reg |-> RegisterStored(get_commands(file))]

----------------------------------------------------------------------------
(* Process Registry *)

Insert(map, k, v) == [x \in DOMAIN map \cup {k} |-> IF x = k THEN v ELSE map[x]]
Remove(map, k) == [x \in DOMAIN map \ {k} |-> map[x]]
Get(map, k) == IF k \in DOMAIN map THEN Some(map[k]) ELSE None

EmptyMap == [x \in {} |-> 0]

----------------------------------------------------------------------------
(* Initial state: the application is constructed, setup has not run yet *)

IdleThread == [pc |-> "idle", cid |-> "", script |-> "", pid |-> 0, res |-> "none"]

MainAt(pc, id, kpid) == [pc |-> pc, id |-> id, kpid |-> kpid]

\* a return value (or, for the shortcut handler, the logged outcome): who
\* returned, from which operation, called with which argument (a command
\* id; the safe_mode written for update_config), the result, and for
\* kill_command the exit status of the child it ran and the pid it signalled
NoRet == [who |-> "none", op |-> "none", id |-> "", res |-> "none", status |-> "none", sent |-> 0]
Ret(who, op, id, res) == [NoRet EXCEPT !.who = who, !.op = op, !.id = id, !.res = res]

OpOf(t) == IF t = Handler THEN "shortcut" ELSE "execute"

\* no function of store.rs is under trial
NoTrial ==
    [kind |-> "none", step |-> "none", commands |-> <<>>, file |-> Absent,
     loaded |-> Err("none"), first |-> Err("none"), config |-> Config(FALSE),
     path |-> <<>>, home |-> None, expanded |-> <<>>]

Init ==
    /\ storeFile \in InitStores
    /\ configFile \in {Absent, ConfigFile(Config(TRUE))}
    /\ processes = EmptyMap
    /\ procs = [p \in Pids |-> "unborn"]
    /\ registered = {}
    /\ th = [t \in Threads |-> IdleThread]
    /\ main = MainAt("setup", "", 0)
    /\ calls = 0
    /\ ret = NoRet
    /\ fn = NoTrial

AppUp == main.pc \notin {"setup", "crashed"}

\* one more call is received
Call == calls < MaxCalls /\ calls' = calls + 1

----------------------------------------------------------------------------
(* Script Executor: execute_command and run_command_script *)

\* the worker that serves the next execute call: the pool's workers are
\* interchangeable, the first idle one is taken
FreeWorker == IF th["w1"].pc = "idle" THEN "w1" ELSE "w2"

\* execute_command up to spawn_blocking: resolve the id against a fresh read
E_start(t, command_id) ==
    /\ AppUp
    /\ t = FreeWorker
    /\ th[t].pc = "idle"
    /\ Call
    /\ \E commands \in {get_commands(storeFile)} :
           IF ~commands.ok
           THEN /\ ret' = Ret(t, "execute", command_id, commands.err)
                /\ UNCHANGED th
           ELSE \E command \in {find_by_id(commands.val, command_id)} :
                    IF command = None
                    THEN /\ ret' = Ret(t, "execute", command_id, "NotFound")
                         /\ UNCHANGED th
                    ELSE /\ th' = [th EXCEPT ![t] = [IdleThread EXCEPT !.pc = "gate", !.cid = command_id,
                                                                       !.script = command[1].script]]
                         /\ ret' = NoRet
    /\ UNCHANGED <<storeFile, configFile, processes, procs, registered, main, fn>>

\* the global-shortcut handler on a Pressed event: match the pressed
\* combination against a fresh read; a failed read or no match drops the event
H_press(shortcut_str) ==
    /\ AppUp
    /\ registered # {}
    /\ th[Handler].pc = "idle"
    /\ Call
    /\ \E commands \in {get_commands(storeFile)} :
       \E command \in {IF commands.ok THEN find_by_shortcut(commands.val, shortcut_str) ELSE None} :
           IF command = None
           THEN UNCHANGED th
           ELSE th' = [th EXCEPT ![Handler] = [IdleThread EXCEPT !.pc = "gate", !.cid = command[1].id,
                                                                 !.script = command[1].script]]
    /\ ret' = NoRet
    /\ UNCHANGED <<storeFile, configFile, processes, procs, registered, main, fn>>

\* (mutant) the flag of the default record instead of the stored one
SafeModeOn_Default == Config(FALSE).safe_mode

\* run_command_script, the safe-mode check: config.safe_mode of a fresh read
SafeModeOn == get_config(configFile).safe_mode

\* (mutant) the check guards execute_command only, not the shortcut handler
E_gate_ExecuteOnly(t) ==
    /\ th[t].pc = "gate"
    /\ IF SafeModeOn /\ t # Handler
       THEN /\ th' = [th EXCEPT ![t] = IdleThread]
            /\ ret' = Ret(t, OpOf(t), th[t].cid, "SafeModeBlocked")
       ELSE /\ th' = [th EXCEPT ![t].pc = "spawn"]
            /\ ret' = NoRet
    /\ UNCHANGED <<storeFile, configFile, processes, procs, registered, main, calls, fn>>

E_gate(t) ==
    /\ th[t].pc = "gate"
    /\ IF SafeModeOn
       THEN /\ th' = [th EXCEPT ![t] = IdleThread]
            /\ ret' = Ret(t, OpOf(t), th[t].cid, "SafeModeBlocked")
       ELSE /\ th' = [th EXCEPT ![t].pc = "spawn"]
            /\ ret' = NoRet
    /\ UNCHANGED <<storeFile, configFile, processes, procs, registered, main, calls, fn>>

NextPid == CHOOSE p \in Pids : procs[p] = "unborn" /\ \A q \in Pids : q < p => procs[q] # "unborn"

\* Command::new("sh").arg("-c").arg(script).spawn(): a new process, or an error
E_spawn(t) ==
    /\ th[t].pc = "spawn"
    /\ \/ /\ \E p \in Pids : procs[p] = "unborn"
          /\ procs' = [procs EXCEPT ![NextPid] = "running"]
          /\ th' = [th EXCEPT ![t].pc = "insert", ![t].pid = NextPid]
          /\ ret' = NoRet
       \/ /\ th' = [th EXCEPT ![t] = IdleThread]
          /\ ret' = Ret(t, OpOf(t), th[t].cid, "SpawnFailed")
          /\ UNCHANGED procs
    /\ UNCHANGED <<storeFile, configFile, processes, registered, main, calls, fn>>

\* state.processes.lock().unwrap().insert(command_id, pid)
E_insert(t) ==
    /\ th[t].pc = "insert"
    /\ processes' = Insert(processes, th[t].cid, th[t].pid)
    /\ th' = [th EXCEPT ![t].pc = "wait"]
    /\ ret' = NoRet
    /\ UNCHANGED <<storeFile, configFile, procs, registered, main, calls, fn>>

\* child.wait_with_output() returns once the child has terminated, and reaps it
E_wait(t) ==
    /\ th[t].pc = "wait"
    /\ procs[th[t].pid] \in {"exited", "killed"}
    /\ procs' = [procs EXCEPT ![th[t].pid] = "gone"]
    /\ th' = [th EXCEPT ![t].pc = "remove", ![t].res = "Output"]
    /\ ret' = NoRet
    /\ UNCHANGED <<storeFile, configFile, processes, registered, main, calls, fn>>

\* (mutant) the error of the wait is returned at once, before the removal
E_waitFailed_Return(t) ==
    /\ th[t].pc = "wait"
    /\ th' = [th EXCEPT ![t] = IdleThread]
    /\ ret' = Ret(t, OpOf(t), th[t].cid, "WaitFailed")
    /\ UNCHANGED <<storeFile, configFile, processes, procs, registered, main, calls, fn>>

\* child.wait_with_output() fails, whatever the child does
E_waitFailed(t) ==
    /\ th[t].pc = "wait"
    /\ th' = [th EXCEPT ![t].pc = "remove", ![t].res = "WaitFailed"]
    /\ ret' = NoRet
    /\ UNCHANGED <<storeFile, configFile, processes, procs, registered, main, calls, fn>>

\* (mutant) the thread returns and leaves the entry in place
E_remove_Skip(t) ==
    /\ th[t].pc = "remove"
    /\ th' = [th EXCEPT ![t] = IdleThread]
    /\ ret' = Ret(t, OpOf(t), th[t].cid, th[t].res)
    /\ UNCHANGED <<storeFile, configFile, processes, procs, registered, main, calls, fn>>

\* (mutant) the entry is removed only when it holds the pid this thread spawned
E_remove_IfOwn(t) ==
    /\ th[t].pc = "remove"
    /\ processes' = IF Get(processes, th[t].cid) = Some(th[t].pid)
                    THEN Remove(processes, th[t].cid)
                    ELSE processes
    /\ th' = [th EXCEPT ![t] = IdleThread]
    /\ ret' = Ret(t, OpOf(t), th[t].cid, th[t].res)
    /\ UNCHANGED <<storeFile, configFile, procs, registered, main, calls, fn>>

\* state.processes.lock().unwrap().remove(command_id), then the result
E_remove(t) ==
    /\ th[t].pc = "remove"
    /\ processes' = Remove(processes, th[t].cid)
    /\ th' = [th EXCEPT ![t] = IdleThread]
    /\ ret' = Ret(t, OpOf(t), th[t].cid, th[t].res)
    /\ UNCHANGED <<storeFile, configFile, procs, registered, main, calls, fn>>

\* the script ends by itself
ProcExit(p) ==
    /\ procs[p] = "running"
    /\ procs' = [procs EXCEPT ![p] = "exited"]
    /\ ret' = NoRet
    /\ UNCHANGED <<storeFile, configFile, processes, registered, th, main, calls, fn>>

----------------------------------------------------------------------------
(* Process Terminator: kill_command *)

\* (mutant) an id that matches no command is an error, as in execute_command
K_start_NotFound(command_id) ==
    /\ main.pc = "idle"
    /\ Call
    /\ \E commands \in {get_commands(storeFile)} :
           IF ~commands.ok
           THEN /\ ret' = Ret("main", "kill", command_id, commands.err)
                /\ UNCHANGED main
           ELSE \E command \in {find_by_id(commands.val, command_id)} :
                    IF command = None
                    THEN /\ ret' = Ret("main", "kill", command_id, "NotFound")
                         /\ UNCHANGED main
                    ELSE /\ ret' = NoRet
                         /\ IF HasKillScript(command[1])
                            THEN main' = MainAt("kill_script", command_id, 0)
                            ELSE main' = MainAt("kill_lookup", command_id, 0)
    /\ UNCHANGED <<storeFile, configFile, processes, procs, registered, th, fn>>

\* 1. resolve the command; a non-empty kill script takes the script path
K_start(command_id) ==
    /\ main.pc = "idle"
    /\ Call
    /\ \E commands \in {get_commands(storeFile)} :
           IF ~commands.ok
           THEN /\ ret' = Ret("main", "kill", command_id, commands.err)
                /\ UNCHANGED main
           ELSE \E command \in {find_by_id(commands.val, command_id)} :
                    /\ ret' = NoRet
                    /\ IF command # None /\ HasKillScript(command[1])
                       THEN main' = MainAt("kill_script", command_id, 0)
                       ELSE main' = MainAt("kill_lookup", command_id, 0)
    /\ UNCHANGED <<storeFile, configFile, processes, procs, registered, th, fn>>

\* (mutant) the return is missing and the fallback follows
AfterKillScript_FallThrough == "kill_lookup"

\* where kill_command goes once the kill script has run: return Ok(())
AfterKillScript == "idle"

\* Command::new("sh").arg("-c").arg(kill_script).output(): the shell cannot
\* be launched (an error), or the script runs to completion with some exit
\* status; the script is user-authored and may end any of the running scripts
K_script ==
    /\ main.pc = "kill_script"
    /\ \/ /\ main' = MainAt("idle", "", 0)
          /\ ret' = Ret("main", "kill", main.id, "KillScriptFailed")
          /\ UNCHANGED procs
       \/ \E status \in {"success", "failure"} :
             /\ main' = IF AfterKillScript = "idle" THEN MainAt("idle", "", 0)
                        ELSE [main EXCEPT !.pc = AfterKillScript]
             /\ ret' = IF AfterKillScript = "idle"
                       THEN [Ret("main", "kill", main.id, "Ok") EXCEPT !.status = status]
                       ELSE NoRet
             /\ \/ UNCHANGED procs
                \/ \E p \in Pids : /\ procs[p] = "running"
                                   /\ procs' = [procs EXCEPT ![p] = "exited"]
    /\ UNCHANGED <<storeFile, configFile, processes, registered, th, calls, fn>>

\* 2. procs.get(&command_id).copied() under the lock
K_lookup ==
    /\ main.pc = "kill_lookup"
    /\ LET pid == Get(processes, main.id)
       IN  IF pid = None
           THEN /\ main' = MainAt("idle", "", 0)
                /\ ret' = Ret("main", "kill", main.id, "Ok")
           ELSE /\ main' = [main EXCEPT !.pc = "kill_signal", !.kpid = pid[1]]
                /\ ret' = NoRet
    /\ UNCHANGED <<storeFile, configFile, processes, procs, registered, th, calls, fn>>

\* exit status of `kill -9 pid`: success for a live or not yet reaped
\* process, failure (no such process) once the pid is gone
KillStatus(state) == IF state \in {"running", "exited", "killed"} THEN "success" ELSE "failure"

\* if !output.status.success() { return Err(..) } ... Ok(())
KillResult(status) == IF status = "success" THEN "Ok" ELSE "TerminationFailed"

\* (mutant) the terminator drops the entry of the process it signalled
K_signal_Removes ==
    /\ main.pc = "kill_signal"
    /\ \/ /\ ret' = Ret("main", "kill", main.id, "TerminationFailed")
          /\ UNCHANGED <<procs, processes>>
       \/ LET status == KillStatus(procs[main.kpid])
          IN  /\ ret' = [Ret("main", "kill", main.id, KillResult(status))
                           EXCEPT !.status = status, !.sent = main.kpid]
              /\ procs' = [procs EXCEPT ![main.kpid] = IF @ = "running" THEN "killed" ELSE @]
              /\ processes' = Remove(processes, main.id)
    /\ main' = MainAt("idle", "", 0)
    /\ UNCHANGED <<storeFile, configFile, registered, th, calls, fn>>

\* 3. Command::new("kill").arg("-9").arg(pid).output(): the command cannot be
\* launched (an error), or it runs and signals the pid
K_signal ==
    /\ main.pc = "kill_signal"
    /\ \/ /\ ret' = Ret("main", "kill", main.id, "TerminationFailed")
          /\ UNCHANGED procs
       \/ LET status == KillStatus(procs[main.kpid])
          IN  /\ ret' = [Ret("main", "kill", main.id, KillResult(status))
                           EXCEPT !.status = status, !.sent = main.kpid]
              /\ procs' = [procs EXCEPT ![main.kpid] = IF @ = "running" THEN "killed" ELSE @]
    /\ main' = MainAt("idle", "", 0)
    /\ UNCHANGED <<storeFile, configFile, processes, registered, th, calls, fn>>

----------------------------------------------------------------------------
(* Commands on the store and the configuration *)

\* setup: the handler is installed, then refresh_shortcuts(app.handle())?
Setup ==
    /\ main.pc = "setup"
    /\ \E unregisterOk \in BOOLEAN :
         \E r \in {refresh_shortcuts(storeFile, registered, unregisterOk)} :
             /\ registered' = r.reg
             /\ main' = IF r.ok THEN MainAt("idle", "", 0) ELSE MainAt("crashed", "", 0)
             /\ ret' = Ret("main", "setup", "", IF r.ok THEN "Ok" ELSE "RefreshFailed")
    /\ UNCHANGED <<storeFile, configFile, processes, procs, th, calls, fn>>

\* (mutant) a failed refresh puts the old file back
SaveAndRefresh_Rollback(op, id, commands, unregisterOk) ==
    \E file \in {save_commands(commands)} :
    \E r \in {refresh_shortcuts(file, registered, unregisterOk)} :
        /\ storeFile' = IF r.ok THEN file ELSE storeFile
        /\ registered' = r.reg
        /\ ret' = Ret("main", op, id, IF r.ok THEN "Ok" ELSE "RefreshFailed")

\* (mutant) the refresh works on the store as it was read before the write
SaveAndRefresh_StaleRead(op, id, commands, unregisterOk) ==
    \E file \in {save_commands(commands)} :
    \E r \in {refresh_shortcuts(storeFile, registered, unregisterOk)} :
        /\ storeFile' = file
        /\ registered' = r.reg
        /\ ret' = Ret("main", op, id, IF r.ok THEN "Ok" ELSE "RefreshFailed")

\* a write of the store followed by refresh_shortcuts, the operation's result
SaveAndRefresh(op, id, commands, unregisterOk) ==
    \E file \in {save_commands(commands)} :
    \E r \in {refresh_shortcuts(file, registered, unregisterOk)} :
        /\ storeFile' = file
        /\ registered' = r.reg
        /\ ret' = Ret("main", op, id, IF r.ok THEN "Ok" ELSE "RefreshFailed")

add_command(command) ==
    /\ main.pc = "idle"
    /\ Call
    /\ \E commands \in {get_commands(storeFile)} :
           IF ~commands.ok
           THEN /\ ret' = Ret("main", "add", command.id, commands.err)
                /\ UNCHANGED <<storeFile, registered>>
           ELSE /\ Len(commands.val) < MaxCmds
                /\ \E unregisterOk \in BOOLEAN :
                     SaveAndRefresh("add", command.id, Append(commands.val, command), unregisterOk)
    /\ UNCHANGED <<configFile, processes, procs, th, main, fn>>

\* (mutant) a command whose id is not stored is added
update_command_Upsert(command) ==
    /\ main.pc = "idle"
    /\ Call
    /\ \E commands \in {get_commands(storeFile)} :
           IF ~commands.ok
           THEN /\ ret' = Ret("main", "update", command.id, commands.err)
                /\ UNCHANGED <<storeFile, registered>>
           ELSE LET index == PositionOfId(commands.val, command.id, 1)
                IN  \E unregisterOk \in BOOLEAN :
                      SaveAndRefresh("update", command.id,
                                     IF index = 0 THEN Append(commands.val, command)
                                     ELSE [commands.val EXCEPT ![index] = command], unregisterOk)
    /\ UNCHANGED <<configFile, processes, procs, th, main, fn>>

\* commands.iter().position(|c| c.id == command.id), then commands[index] = command
update_command(command) ==
    /\ main.pc = "idle"
    /\ Call
    /\ \E commands \in {get_commands(storeFile)} :
           IF ~commands.ok
           THEN /\ ret' = Ret("main", "update", command.id, commands.err)
                /\ UNCHANGED <<storeFile, registered>>
           ELSE LET index == PositionOfId(commands.val, command.id, 1)
                IN  IF index = 0
                    THEN /\ ret' = Ret("main", "update", command.id, "NotFound")
                         /\ UNCHANGED <<storeFile, registered>>
                    ELSE \E unregisterOk \in BOOLEAN :
                           SaveAndRefresh("update", command.id,
                                          [commands.val EXCEPT ![index] = command], unregisterOk)
    /\ UNCHANGED <<configFile, processes, procs, th, main, fn>>

\* (mutant) only the first command with the id is removed
Retain_First(commands, id) ==
    LET i == PositionOfId(commands, id, 1)
    IN  IF i = 0 THEN commands
        ELSE SubSeq(commands, 1, i - 1) \o SubSeq(commands, i + 1, Len(commands))

\* commands.retain(|c| c.id != id)
Retain(commands, id) ==
    LET keep(c) == c.id # id IN SelectSeq(commands, keep)

delete_command(id) ==
    /\ main.pc = "idle"
    /\ Call
    /\ \E commands \in {get_commands(storeFile)} :
           IF ~commands.ok
           THEN /\ ret' = Ret("main", "delete", id, commands.err)
                /\ UNCHANGED <<storeFile, registered>>
           ELSE \E unregisterOk \in BOOLEAN :
                  SaveAndRefresh("delete", id, Retain(commands.val, id), unregisterOk)
    /\ UNCHANGED <<configFile, processes, procs, th, main, fn>>

update_config(config) ==
    /\ main.pc = "idle"
    /\ Call
    /\ configFile' = save_config(config)
    /\ ret' = Ret("main", "update_config", IF config.safe_mode THEN "true" ELSE "false", "Ok")
    /\ UNCHANGED <<storeFile, processes, procs, registered, th, main, fn>>

----------------------------------------------------------------------------

Next ==
    \/ Setup
    \/ \E t \in Workers, id \in Ids : E_start(t, id)
    \/ \E s \in Shortcuts : H_press(s)
    \/ \E t \in Threads : E_gate(t)
    \/ \E t \in Threads : E_spawn(t)
    \/ \E t \in Threads : E_insert(t)
    \/ \E t \in Threads : E_wait(t)
    \/ \E t \in Threads : E_waitFailed(t)
    \/ \E t \in Threads : E_remove(t)
    \/ \E p \in Pids : ProcExit(p)
    \/ \E id \in Ids : K_start(id)
    \/ K_script
    \/ K_lookup
    \/ K_signal
    \/ \E c \in CommandPool : add_command(c)
    \/ \E c \in CommandPool : update_command(c)
    \/ \E id \in Ids : delete_command(id)
    \/ \E b \in BOOLEAN : update_config(Config(b))

Spec == Init /\ [][Next]_vars

\* Scheduling of the executor's completion path: the blocked wait returns
\* once the child has terminated, and the registry lock, held only for single
\* map operations, is then acquired for the removal.
Fairness == \A t \in Threads : WF_vars(E_wait(t)) /\ WF_vars(E_remove(t))

FairSpec == Spec /\ Fairness

----------------------------------------------------------------------------
(* The functions of store.rs by themselves: an input is drawn, the function *)
(* is applied and its outcome kept in fn.  The application is not started.  *)

\* commands with strings that need escaping, an empty string and a name and
\* description of their own
TrialCommands ==
    { Command("a", "s1", None, None),
      [Command("b", "s2", Some(<<"\"">>), Some(<<>>))
          EXCEPT !.name = "n", !.description = Some(<<"\\", "n">>)],
      [Command("a", "s2", Some(<<"\n", "k">>), Some(<<"1">>))
          EXCEPT !.description = Some(<<"\\">>)] }

CommandLists == UNION {[1..n -> TrialCommands] : n \in 0..MaxCmds}

PathChars == {"~", "/", "a"}
Paths == UNION {[1..n -> PathChars] : n \in 0..MaxPath}
Homes == {None, Some(<<"/", "h">>), Some(<<>>)}

StoreTrial(commands, file) ==
    [NoTrial EXCEPT !.kind = "store", !.step = "start", !.commands = commands, !.file = file]
ConfigTrial(file) == [NoTrial EXCEPT !.kind = "config", !.step = "start", !.file = file]
PathTrial(path, home) ==
    [NoTrial EXCEPT !.kind = "path", !.step = "start", !.path = path, !.home = home]

FnInit ==
    /\ storeFile = Absent
    /\ configFile = Absent
    /\ processes = EmptyMap
    /\ procs = [p \in Pids |-> "unborn"]
    /\ registered = {}
    /\ th = [t \in Threads |-> IdleThread]
    /\ main = MainAt("setup", "", 0)
    /\ calls = 0
    /\ ret = NoRet
    /\ fn \in {StoreTrial(cs, f) : cs \in CommandLists, f \in {Absent, EmptyFile}}
             \cup {ConfigTrial(f) : f \in {Absent, ConfigFile(Config(TRUE)), ConfigFile(Config(FALSE))}}
             \cup {PathTrial(p, h) : p \in Paths, h \in Homes}

\* store::save_commands(path, commands) on the trial's file
T_save_commands ==
    /\ fn.kind = "store" /\ fn.step = "start"
    /\ fn' = [fn EXCEPT !.file = save_commands(fn.commands), !.step = "saved"]
    /\ UNCHANGED <<storeFile, configFile, processes, procs, registered, th, main, calls, ret>>

\* store::get_commands(path), which is all the get_commands command does:
\* of the file as found, of the file just saved, of the file saved again
T_get_commands ==
    /\ fn.kind = "store" /\ fn.step \in {"start", "saved", "resaved"}
    /\ fn' = [fn EXCEPT !.loaded = get_commands(fn.file),
                        !.step = IF fn.step = "start" THEN "read"
                                 ELSE IF fn.step = "saved" THEN "loaded" ELSE "reloaded"]
    /\ UNCHANGED <<storeFile, configFile, processes, procs, registered, th, main, calls, ret>>

\* store::save_commands(path, &loaded): the list that was loaded is saved
T_resave ==
    /\ fn.kind = "store" /\ fn.step = "loaded" /\ fn.loaded.ok
    /\ fn' = [fn EXCEPT !.file = save_commands(fn.loaded.val), !.first = fn.loaded,
                        !.step = "resaved"]
    /\ UNCHANGED <<storeFile, configFile, processes, procs, registered, th, main, calls, ret>>

\* store::get_config(path)
T_get_config ==
    /\ fn.kind = "config" /\ fn.step = "start"
    /\ fn' = [fn EXCEPT !.config = get_config(fn.file), !.step = "read"]
    /\ UNCHANGED <<storeFile, configFile, processes, procs, registered, th, main, calls, ret>>

\* store::expand_path(path_str)
T_expand_path ==
    /\ fn.kind = "path" /\ fn.step = "start"
    /\ fn' = [fn EXCEPT !.expanded = expand_path(fn.path, fn.home), !.step = "expanded"]
    /\ UNCHANGED <<storeFile, configFile, processes, procs, registered, th, main, calls, ret>>

FnNext ==
    \/ T_save_commands
    \/ T_get_commands
    \/ T_resave
    \/ T_get_config
    \/ T_expand_path

FnSpec == FnInit /\ [][FnNext]_vars

----------------------------------------------------------------------------
(* Properties.  A step of thread t is recognised by what it changes, and   *)
(* the stored data is read from the files, not through the operators of    *)
(* the model.                                                              *)

\* the flag config.json holds (the default when there is no file)
StoredSafeMode == configFile.kind = "config" /\ configFile.config.safe_mode

\* the list commands.json holds, when it holds one
StoreReadable == storeFile.kind \in {"absent", "list"}
\* read off the text at the places save_commands writes the fields to: 14
\* tokens to a command, after the opening bracket
StoredOption(token) == IF token.t = "str" THEN <<Unescape(token.s)>> ELSE <<>>
StoredCommand(text, n) ==
    LET at(k) == text[14 * (n - 1) + 1 + k]
    IN  [id |-> at(3).s[1], name |-> at(5).s[1], script |-> at(7).s[1],
         kill_script |-> StoredOption(at(9)), shortcut |-> StoredOption(at(11)),
         description |-> StoredOption(at(13))]
StoredCommands ==
    IF storeFile.kind = "list"
    THEN [n \in 1..((Len(storeFile.text) - 2) \div 14) |-> StoredCommand(storeFile.text, n)]
    ELSE <<>>
StoredIds == {StoredCommands[i].id : i \in 1..Len(StoredCommands)}

\* thread t takes its safe-mode check
GateStep(t) == th[t].pc = "gate" /\ th'[t] # th[t]

\* worker t receives an execute call
StartStep(t) == th[t].pc = "idle" /\ calls' # calls /\ (th'[t].pc = "gate" \/ ret'.who = t)

\* C1: an execute of a stored command whose safe-mode check finds
\* safe_mode = true returns SafeModeBlocked; neither that step nor the call's
\* first step spawns a process or changes the Process Registry.
C1_SafeModeBlocksExecute ==
    [][\A t \in Workers :
         /\ (GateStep(t) /\ StoredSafeMode) =>
               /\ ret' = Ret(t, "execute", th[t].cid, "SafeModeBlocked")
               /\ th'[t] = IdleThread
               /\ procs' = procs
               /\ processes' = processes
         /\ StartStep(t) => (procs' = procs /\ processes' = processes)]_vars

\* C1 witness: execute of a stored command has just returned SafeModeBlocked
\* and nothing was spawned or tracked
C1_Witness ==
    /\ ret.op = "execute" /\ ret.res = "SafeModeBlocked"
    /\ ret.id \in StoredIds
    /\ StoredSafeMode
    /\ processes = EmptyMap
    /\ \A p \in Pids : procs[p] = "unborn"

\* C2: a shortcut press that matched a stored command and whose safe-mode
\* check finds safe_mode = true ends there: no process is spawned and the
\* Process Registry is unchanged, as for execute.
C2_SafeModeBlocksShortcut ==
    [][(GateStep(Handler) /\ StoredSafeMode) =>
          /\ ret' = Ret(Handler, "shortcut", th[Handler].cid, "SafeModeBlocked")
          /\ th'[Handler] = IdleThread
          /\ procs' = procs
          /\ processes' = processes]_vars

\* C2 witness: the handler has just been blocked by safe mode
C2_Witness ==
    /\ ret.who = Handler /\ ret.res = "SafeModeBlocked"
    /\ ret.id \in StoredIds
    /\ StoredSafeMode
    /\ processes = EmptyMap
    /\ \A p \in Pids : procs[p] = "unborn"

\* C3: the flag is read fresh.  update_config(c) leaves c.safe_mode stored,
\* nothing else changes the stored flag, and every safe-mode check decides by
\* the flag stored at that moment: blocked if it is true, on to the spawn if
\* it is false.
C3_FlagReadFresh ==
    [][/\ ret'.op = "update_config" => (StoredSafeMode' <=> ret'.id = "true")
       /\ ret'.op # "update_config" => (StoredSafeMode' <=> StoredSafeMode)
       /\ \A t \in Threads :
            GateStep(t) =>
               IF StoredSafeMode
               THEN ret'.res = "SafeModeBlocked" /\ th'[t].pc = "idle"
               ELSE ret' = NoRet /\ th'[t].pc = "spawn"]_vars

\* C3 witness: safe_mode = false has been written over a stored record and
\* an execute has passed the check and is about to spawn
C3_Witness ==
    /\ configFile = ConfigFile(Config(FALSE))
    /\ \E t \in Workers : th[t].pc = "spawn"

\* C4: an execute whose id matches no command of the store as read returns
\* NotFound without spawning and without touching the Process Registry,
\* whatever safe_mode is.
C4_ExecuteNotFound ==
    [][\A t \in Workers :
         (StartStep(t) /\ StoreReadable) =>
            LET id == IF th'[t].pc = "gate" THEN th'[t].cid ELSE ret'.id
            IN  id \notin StoredIds =>
                   /\ ret' = Ret(t, "execute", id, "NotFound")
                   /\ th' = th
                   /\ procs' = procs
                   /\ processes' = processes]_vars

\* C4 witness: NotFound returned from a non-empty store while safe mode is on
C4_Witness ==
    /\ ret.op = "execute" /\ ret.res = "NotFound"
    /\ StoredIds # {} /\ ret.id \notin StoredIds
    /\ StoredSafeMode

\* a string that is not empty once trimmed, read off its characters
NonBlank(str) == \E i \in 1..Len(str) : str[i] \notin {" ", "\t", "\n"}

\* the stored command kill_command resolves an id to: the first with that id
StoredKillScript(id) ==
    LET hits == {i \in 1..Len(StoredCommands) : StoredCommands[i].id = id}
        first == CHOOSE i \in hits : \A j \in hits : i <= j
    IN  IF hits = {} THEN <<>> ELSE StoredCommands[first].kill_script

DeclaresKillScript(id) == StoredKillScript(id) # <<>> /\ NonBlank(StoredKillScript(id)[1])

\* the main thread receives a kill call / takes a later step of one
KillStartStep ==
    main.pc = "idle" /\ calls' # calls
        /\ (main'.pc \in {"kill_script", "kill_lookup"} \/ ret'.op = "kill")
KillArg == IF main'.pc = "idle" THEN ret'.id ELSE main'.id
KillScriptStep == main.pc = "kill_script" /\ main' # main
KillLookupStep == main.pc = "kill_lookup" /\ main' # main
KillSignalStep == main.pc = "kill_signal" /\ main' # main
KillStep == KillStartStep \/ KillScriptStep \/ KillLookupStep \/ KillSignalStep

\* C5: kill of a command that declares a kill script which is not blank
\* runs the script; once the script has run, whatever its exit status and
\* whether or not the command is tracked, kill returns success right there:
\* it does not go on to the Process Registry lookup and signals no pid.
C5_KillScriptAlwaysOk ==
    [][/\ (KillStartStep /\ StoreReadable /\ DeclaresKillScript(KillArg)) =>
             main'.pc = "kill_script"
       /\ KillScriptStep =>
             /\ main'.pc = "idle"
             /\ ret'.who = "main" /\ ret'.op = "kill" /\ ret'.id = main.id
             /\ ret'.sent = 0
             /\ ret'.status # "none" => ret'.res = "Ok"
             /\ processes' = processes
             /\ \A p \in Pids : procs'[p] = "killed" => procs[p] = "killed"]_vars

\* C5 witness: the kill script failed, the command is still tracked and
\* running, and kill has returned success without signalling
C5_Witness ==
    /\ ret.op = "kill" /\ ret.res = "Ok" /\ ret.status = "failure" /\ ret.sent = 0
    /\ DeclaresKillScript(ret.id)
    /\ ret.id \in DOMAIN processes
    /\ procs[processes[ret.id]] = "running"

\* C6: kill of an id with no kill script to run (no such command, none
\* declared, or a blank one) goes to the Process Registry lookup, never
\* returns NotFound, and with no entry for the id returns success without
\* signalling any process.
C6_KillNothingTracked ==
    [][/\ (KillStartStep /\ StoreReadable /\ ~DeclaresKillScript(KillArg)) =>
             main'.pc = "kill_lookup" /\ ret' = NoRet
       /\ ret'.op = "kill" => ret'.res # "NotFound"
       /\ (KillLookupStep /\ main.id \notin DOMAIN processes) =>
             /\ ret' = Ret("main", "kill", main.id, "Ok")
             /\ main'.pc = "idle"
             /\ procs' = procs
             /\ processes' = processes]_vars

\* C6 witness: kill of an id that no stored command has returned success,
\* having run nothing and signalled nothing
C6_Witness ==
    /\ ret = Ret("main", "kill", ret.id, "Ok")
    /\ StoredIds # {} /\ ret.id \notin StoredIds
    /\ ret.id \notin DOMAIN processes

\* C7 (as claimed): when the termination command was carried out on a
\* tracked pid whose process has already terminated, kill does not return an
\* error.
C7_AlreadyGoneIsNoError ==
    [][(KillSignalStep /\ ret'.sent # 0 /\ procs[main.kpid] # "running") =>
          ret'.res = "Ok"]_vars

\* C8: no step of kill changes the Process Registry, and an entry
\* disappears only in the removal step of an executor thread that ran that
\* command id.
C8_KillLeavesRegistry ==
    [][/\ KillStep => processes' = processes
       /\ \A id \in DOMAIN processes :
            id \notin DOMAIN processes' =>
               \E t \in Threads : th[t].pc = "remove" /\ th[t].cid = id /\ th'[t].pc = "idle"]_vars

\* C8 witness: kill has signalled the tracked pid and returned, and the
\* entry is still in the registry
C8_Witness ==
    /\ ret.op = "kill" /\ ret.res = "Ok" /\ ret.sent # 0
    /\ ret.id \in DOMAIN processes
    /\ processes[ret.id] = ret.sent

\* the executor thread t is waiting on the process it spawned for id
WaitingOn(t, id, pid) == th[t].pc = "wait" /\ th[t].cid = id /\ th[t].pid = pid

\* C9: kill of a command without kill script, called while its execute is
\* waiting: the lookup finds the recorded pid, the termination command, when
\* it runs, signals that pid and a running process is terminated by it; and
\* once kill has signalled the pid an execute of that id is waiting on and
\* has returned success, the executor's completion makes the entry of that
\* id absent.
C9_KillThenEntryAbsent ==
    /\ [][/\ (KillLookupStep /\ main.id \in DOMAIN processes) =>
                main'.pc = "kill_signal" /\ main'.kpid = processes[main.id]
          /\ (KillSignalStep /\ ret'.status # "none") =>
                /\ ret'.sent = main.kpid
                /\ procs[main.kpid] = "running" => procs'[main.kpid] = "killed"]_vars
    /\ \A id \in Ids :
          (/\ ret.op = "kill" /\ ret.id = id /\ ret.res = "Ok" /\ ret.sent # 0
           /\ \E t \in Threads : WaitingOn(t, id, ret.sent))
             ~> (id \notin DOMAIN processes)

\* C9 witness: execute is waiting on the process kill has just terminated
C9_Witness ==
    /\ ret.op = "kill" /\ ret.res = "Ok" /\ ret.sent # 0
    /\ ~DeclaresKillScript(ret.id)
    /\ procs[ret.sent] = "killed"
    /\ \E t \in Workers : WaitingOn(t, ret.id, ret.sent)
    /\ ret.id \in DOMAIN processes

\* the shortcuts of the stored commands that are not blank
StoredShortcuts ==
    {StoredCommands[i].shortcut[1] :
        i \in {j \in 1..Len(StoredCommands) :
                 StoredCommands[j].shortcut # <<>> /\ NonBlank(StoredCommands[j].shortcut[1])}}

\* a command, startup or store operation whose refresh returned success
RefreshedOk == ret.who = "main" /\ ret.op \in {"setup", "add", "update", "delete"} /\ ret.res = "Ok"

\* C10: when a refresh has returned success the registered set is exactly
\* the shortcuts of the stored commands that are not blank (the code's test
\* of non-empty) less those the registrar refuses; a refused one does not
\* stop the others, and nothing else stays registered.
C10_RefreshMirrorsStore ==
    [][RefreshedOk' => registered' = StoredShortcuts' \ Rejected]_vars

\* C10 witness: the first stored command's shortcut is refused and a later
\* command's shortcut is registered all the same
C10_Witness ==
    /\ RefreshedOk
    /\ Len(StoredCommands) = 2
    /\ StoredCommands[1].shortcut = Some(<<"x">>)
    /\ registered = {StoredCommands[2].shortcut[1]}

\* C11: refresh is idempotent.  When a refresh has returned success and the
\* next step is again a successful refresh over the same stored commands
\* (the registrar's refusals being the same), the registered set it leaves
\* is the one the first refresh left.
C11_RefreshIdempotent ==
    [][(RefreshedOk /\ RefreshedOk' /\ StoreReadable /\ StoredCommands' = StoredCommands) =>
          registered' = registered]_vars

\* C11 witness: right after the startup refresh, update_command has written
\* back a stored command as it was and refreshed again; shortcuts are
\* registered
C11_Witness ==
    /\ ret.op = "update" /\ ret.res = "Ok"
    /\ calls = 1
    /\ storeFile \in InitStores
    /\ Cardinality(registered) = 2

\* the main thread serves a call of the store operation op
StoreStep(op) == main.pc = "idle" /\ calls' # calls /\ ret'.who = "main" /\ ret'.op = op

\* the step wrote the store: the result is that of the refresh
Wrote == ret'.res \in {"Ok", "RefreshFailed"}

\* the index of the first stored command with this id
FirstWithId(id) ==
    LET hits == {i \in 1..Len(StoredCommands) : StoredCommands[i].id = id}
    IN  CHOOSE i \in hits : \A j \in hits : i <= j

\* the list without the commands of this id
WithoutId(commands, id) ==
    LET other(c) == c.id # id IN SelectSeq(commands, other)

\* C12: add, update of a stored id and delete write the store and then
\* refresh.  The store changes in no other step; on success the registered
\* set is the refresh of the store as written; when the refresh fails the
\* operation returns the refresh error, the written list stays in the store
\* and the registered set is left as it was.
C12_NoRollback ==
    [][/\ storeFile' # storeFile =>
             ret'.who = "main" /\ ret'.op \in {"add", "update", "delete"} /\ Wrote
       /\ \A op \in {"add", "update", "delete"} :
            /\ (StoreStep(op) /\ ret'.res = "Ok") => registered' = StoredShortcuts' \ Rejected
            /\ (StoreStep(op) /\ ret'.res = "RefreshFailed") => registered' = registered
       /\ (StoreStep("add") /\ Wrote) =>
             \E c \in CommandPool : c.id = ret'.id /\ StoredCommands' = Append(StoredCommands, c)
       /\ (StoreStep("update") /\ Wrote) =>
             /\ ret'.id \in StoredIds
             /\ \E c \in CommandPool :
                   /\ c.id = ret'.id
                   /\ StoredCommands' = [StoredCommands EXCEPT ![FirstWithId(ret'.id)] = c]
       /\ (StoreStep("delete") /\ Wrote) =>
             /\ storeFile'.kind = "list"
             /\ StoredCommands' = WithoutId(StoredCommands, ret'.id)]_vars

\* C12 witness: delete has returned the refresh error, the command is gone
\* from the store and its shortcut is still registered
C12_Witness ==
    /\ ret.op = "delete" /\ ret.res = "RefreshFailed"
    /\ ret.id \notin StoredIds
    /\ StoredIds # {}
    /\ registered # StoredShortcuts \ Rejected

\* C13: update_command with an id that no stored command has returns
\* NotFound; the store file and the registered set are left as they were.
C13_UpdateNotFound ==
    [][(StoreStep("update") /\ StoreReadable /\ ret'.id \notin StoredIds) =>
          /\ ret'.res = "NotFound"
          /\ storeFile' = storeFile
          /\ registered' = registered]_vars

\* C13 witness: update has returned NotFound on a non-empty store whose
\* registered set is not what a refresh would have left
C13_Witness ==
    /\ ret.op = "update" /\ ret.res = "NotFound"
    /\ StoredIds # {} /\ ret.id \notin StoredIds
    /\ registered # StoredShortcuts \ Rejected

\* C14: delete_command never fails on the lookup.  On a readable store it
\* writes the list without every command of the id, so that no stored
\* command has the id afterwards; an id that no command has leaves the list
\* as it was, and so does a second delete of the same id.
C14_DeleteIdempotent ==
    [][(StoreStep("delete") /\ StoreReadable) =>
          /\ Wrote
          /\ ret'.id \notin StoredIds'
          /\ StoredCommands' = WithoutId(StoredCommands, ret'.id)
          /\ ret'.id \notin StoredIds => StoredCommands' = StoredCommands
          /\ (ret.op = "delete" /\ ret.id = ret'.id) => StoredCommands' = StoredCommands]_vars

\* C14 witness: an execute of "a" was served from the store, then delete of
\* "a" has emptied the store: both commands with that id are gone
C14_Witness ==
    /\ ret.op = "delete" /\ ret.res = "Ok" /\ ret.id = "a"
    /\ th["w1"].pc # "idle" /\ th["w1"].cid = "a"
    /\ storeFile.kind = "list" /\ StoredCommands = <<>>

\* two commands are equal field for field
SameFields(c, d) ==
    /\ c.id = d.id /\ c.name = d.name /\ c.script = d.script
    /\ c.kill_script = d.kill_script /\ c.shortcut = d.shortcut
    /\ c.description = d.description

\* C15: the store round trip.  The list loaded from a file that a list was
\* saved to has the length and the order of the saved list and its commands
\* are equal to the saved ones field for field; saving the loaded list and
\* loading again gives the same list.
C15_StoreRoundTrip ==
    /\ fn.step \in {"loaded", "resaved", "reloaded"} =>
          /\ fn.loaded.ok
          /\ Len(fn.loaded.val) = Len(fn.commands)
          /\ \A i \in 1..Len(fn.commands) : SameFields(fn.loaded.val[i], fn.commands[i])
    /\ fn.step = "reloaded" => fn.loaded = fn.first

\* C15 witness: a list of two commands, one with a quote to escape, an empty
\* shortcut and a description, the other without the optional fields, has
\* been saved, loaded, saved again and loaded again
C15_Witness ==
    /\ fn.step = "reloaded"
    /\ Len(fn.commands) = 2
    /\ fn.commands[1].kill_script = Some(<<"\"">>)
    /\ fn.commands[1].shortcut = Some(<<>>)
    /\ fn.commands[2].kill_script = None
    /\ fn.loaded.ok /\ Len(fn.loaded.val) = 2

\* C16: loading from a file that does not exist is no error: get_commands
\* returns the empty list and get_config the default record, safe_mode false
\* and no commands_path.
C16_AbsentFileDefaults ==
    /\ (fn.kind = "store" /\ fn.step = "read" /\ fn.file.kind = "absent") =>
          fn.loaded.ok /\ fn.loaded.val = <<>>
    /\ (fn.kind = "config" /\ fn.step = "read" /\ fn.file.kind = "absent") =>
          fn.config.safe_mode = FALSE /\ fn.config.commands_path = None

\* C16 witness: get_commands has returned from a file that does not exist
C16_Witness ==
    /\ fn.kind = "store" /\ fn.step = "read"
    /\ fn.file.kind = "absent"
    /\ fn.loaded.ok

\* C17 (as claimed): get_commands of a store file that exists and holds zero
\* bytes returns the empty list, not an error.
C17_EmptyFileIsEmptyList ==
    (fn.kind = "store" /\ fn.step = "read" /\ fn.file.kind = "empty") =>
       fn.loaded.ok /\ fn.loaded.val = <<>>

\* C18: path expansion.  A path that begins with '~', when a home directory
\* is known, becomes the home directory followed by the path less its first
\* character, later '~' included as they are; any other path, and any path
\* when no home directory is known, is returned as it is.
C18_PathExpansion ==
    (fn.kind = "path" /\ fn.step = "expanded") =>
       IF fn.path # <<>> /\ fn.path[1] = "~" /\ fn.home # None
       THEN LET h == fn.home[1]
            IN  /\ Len(fn.expanded) = Len(h) + Len(fn.path) - 1
                /\ \A i \in 1..Len(h) : fn.expanded[i] = h[i]
                /\ \A i \in 2..Len(fn.path) : fn.expanded[Len(h) + i - 1] = fn.path[i]
       ELSE fn.expanded = fn.path

\* C18 witness: "~/~" has been expanded to the home directory followed by
\* "/~"
C18_Witness ==
    /\ fn.step = "expanded"
    /\ fn.path = <<"~", "/", "~">>
    /\ fn.home = Some(<<"/", "h">>)
    /\ fn.expanded = <<"/", "h", "/", "~">>

\* executor thread t has spawned a process for id that is running, and has
\* not yet returned from its wait
SpawnedRunning(t, id) ==
    /\ th[t].pc \in {"insert", "wait"}
    /\ th[t].cid = id
    /\ procs[th[t].pid] = "running"

\* C19 (as claimed): once an execute of id has spawned its process, a kill
\* of id that looks up the Process Registry while the process is running
\* finds an entry for id.
C19_KillObservesSpawned ==
    [][(KillLookupStep /\ \E t \in Threads : SpawnedRunning(t, main.id)) =>
          main'.pc = "kill_signal"]_vars

\* C20 (as claimed): when two executor threads run the same id, both have
\* recorded their pid and neither has returned from its wait, the entry of
\* the id holds the pid spawned last (pids are given out in increasing
\* order).
C20_TracksMostRecentSpawn ==
    \A t, u \in Threads :
       (t # u /\ th[t].pc = "wait" /\ th[u].pc = "wait" /\ th[t].cid = th[u].cid) =>
          /\ th[t].cid \in DOMAIN processes
          /\ processes[th[t].cid] = IF th[t].pid > th[u].pid THEN th[t].pid ELSE th[u].pid

\* executor thread t holds a child it spawned for id: from its spawn up to
\* its removal step
InFlight(t, id) == th[t].cid = id /\ th[t].pc \in {"insert", "wait", "remove"}

\* C21: an execution that spawned removes the entry of its command id when
\* its wait has returned, on every completion path: the wait returns into
\* the removal step whether the child ended by itself, was killed, or the
\* wait failed; the removal step takes the entry of the id out whatever pid
\* it holds, leaves the other entries alone and only then returns the
\* output or WaitFailed.  A failed spawn returns without touching the
\* registry.  Hence an id has an entry only while some execution of it is
\* between its spawn and its removal step.
C21_RemovalOnEveryPath ==
    /\ [][\A t \in Threads :
            /\ (th[t].pc = "wait" /\ th'[t] # th[t]) =>
                  /\ th'[t].pc = "remove"
                  /\ th'[t].res \in {"Output", "WaitFailed"}
                  /\ processes' = processes
            /\ (th[t].pc = "remove" /\ th'[t] # th[t]) =>
                  /\ th[t].cid \notin DOMAIN processes'
                  /\ \A id \in DOMAIN processes \ {th[t].cid} :
                        id \in DOMAIN processes' /\ processes'[id] = processes[id]
                  /\ th'[t].pc = "idle"
                  /\ ret'.who = t /\ ret'.id = th[t].cid /\ ret'.res = th[t].res
            /\ (th[t].pc = "spawn" /\ th'[t].pc = "idle") =>
                  /\ ret'.res = "SpawnFailed"
                  /\ processes' = processes]_vars
    /\ [](\A id \in DOMAIN processes : \E t \in Threads : InFlight(t, id))

\* C21 witness: an execution whose wait failed has returned WaitFailed and
\* the id has no entry, although another execution of the same id has
\* inserted its pid and still waits: the removal did not depend on the pid
\* the entry held
C21_Witness ==
    /\ ret.res = "WaitFailed"
    /\ ret.id \notin DOMAIN processes
    /\ \E u \in Threads : th[u].pc = "wait" /\ th[u].cid = ret.id /\ procs[th[u].pid] = "running"

\* C22 (as claimed): a running script delays no other operation.  While a
\* script started by an execute or by a shortcut press runs, a further
\* shortcut press is served as long as a shortcut is registered, a further
\* execute as long as a pool worker is free, and a kill and a store mutation
\* as long as the thread of the synchronous commands is not serving one.
C22_RunningScriptDelaysNothing ==
    \A t \in Threads :
       (th[t].pc = "wait" /\ procs[th[t].pid] = "running" /\ calls < MaxCalls) =>
          /\ registered # {} => ENABLED (\E s \in Shortcuts : H_press(s))
          /\ (\E w \in Workers : th[w].pc = "idle") => ENABLED (\E id \in Ids : E_start(FreeWorker, id))
          /\ main.pc = "idle" =>
                /\ ENABLED (\E id \in Ids : K_start(id))
                /\ ENABLED (\E id \in Ids : delete_command(id))

\* startup or a store operation has gone through refresh_shortcuts in this step
RefreshStep ==
    /\ ret'.who = "main"
    /\ ret'.op \in {"setup", "add", "update", "delete"}
    /\ ret'.res \in {"Ok", "RefreshFailed"}

\* C23: the failure paths of refresh.  A refresh whose unregister step
\* failed returns the error and registers nothing: no shortcut is registered
\* that was not registered before, whatever the store holds.  A refresh
\* that got past the unregister step over a store that cannot be read
\* returns success with no shortcut registered, and none of the shortcuts
\* registered before a successful refresh survives unless a stored command
\* has it; at startup, over an unreadable store, the refresh can succeed
\* (it does whenever unregister_all does) and the application comes up.
C23_RefreshFailurePaths ==
    /\ [][RefreshStep =>
            /\ ret'.res = "RefreshFailed" =>
                  /\ registered' \subseteq registered
                  /\ ret'.op = "setup" => main'.pc = "crashed"
            /\ ret'.res = "Ok" =>
                  /\ registered' \subseteq StoredShortcuts'
                  /\ ~StoreReadable' => registered' = {}]_vars
    /\ []((main.pc = "setup" /\ ~StoreReadable) =>
             ENABLED (Setup /\ ret'.res = "Ok" /\ registered' = {} /\ main'.pc = "idle"))

\* C23 witness: the startup refresh over a store file that does not parse
\* has returned success and nothing is registered
C23_Witness ==
    /\ ret.who = "main" /\ ret.op = "setup" /\ ret.res = "Ok"
    /\ storeFile.kind = "empty"
    /\ registered = {}
    /\ main.pc = "idle"

\* the position of the first stored command whose shortcut is the string
\* s, 0 if there is none
FirstWithShortcut(s) ==
    LET hits == {i \in 1..Len(StoredCommands) : StoredCommands[i].shortcut = <<s>>}
    IN  IF hits = {} THEN 0 ELSE CHOOSE i \in hits : \A j \in hits : i <= j

\* C24: the dispatch of a shortcut press.  The handler compares the pressed
\* string with the shortcuts of the commands in the store as it is when the
\* event arrives: when a command has it, the executor is entered for the
\* first such command, with its id and its script as stored now; when the
\* store cannot be read or no command has it, the event is dropped and no
\* thread moves.  Either way the step itself spawns nothing, leaves the
\* Process Registry alone and reports no error.
C24_ShortcutDispatch ==
    [][\A s \in Shortcuts :
          H_press(s) =>
             /\ processes' = processes
             /\ procs' = procs
             /\ ret'.res = "none"
             /\ IF StoreReadable /\ FirstWithShortcut(s) # 0
                THEN /\ th'[Handler].pc = "gate"
                     /\ th'[Handler].cid = StoredCommands[FirstWithShortcut(s)].id
                     /\ th'[Handler].script = StoredCommands[FirstWithShortcut(s)].script
                     /\ \A w \in Workers : th'[w] = th[w]
                ELSE th' = th]_vars

\* C24 witness: the store has been rewritten since the shortcuts were
\* registered at startup, and a press has entered the executor for the
\* second stored command
C24_Witness ==
    /\ th[Handler].pc = "gate"
    /\ th[Handler].cid = "b"
    /\ calls = 2
    /\ storeFile \notin InitStores
    /\ Len(StoredCommands) = 2
    /\ StoredCommands[1].id = "a"
    /\ StoredCommands[2].script = th[Handler].script

\* executor thread t has inserted the pid it spawned for id and has not yet
\* run its removal step
Tracked(t, id) == th[t].cid = id /\ th[t].pc \in {"wait", "remove"}

\* C25: in every reachable state an id that has an entry in the Process
\* Registry has at least one execution that inserted its pid and has not
\* yet run its removal step, and the pid the entry holds is the one such an
\* execution spawned; the registry maps each id to a single pid.
C25_EntryOnlyWhileInFlight ==
    /\ DOMAIN processes \subseteq Ids
    /\ processes \in [DOMAIN processes -> Pids]
    /\ \A id \in DOMAIN processes :
          \E t \in Threads : Tracked(t, id) /\ th[t].pid = processes[id]

\* C25 witness: two executions of the same id wait for their children, two
\* different pids, and the id has one entry
C25_Witness ==
    \E t, u \in Threads :
       /\ t # u
       /\ Tracked(t, th[u].cid) /\ Tracked(u, th[u].cid)
       /\ th[t].pid # th[u].pid
       /\ th[u].cid \in DOMAIN processes
       /\ Cardinality(DOMAIN processes) = 1

\* the registered set is that of the stored commands: their non-blank
\* shortcuts, less those the registrar refuses
InSync == registered = StoredShortcuts \ Rejected

SpawnStep(t) == th[t].pc = "spawn" /\ th'[t].pc = "insert"

\* C27 (as claimed): no subprocess is spawned while the stored safe_mode
\* flag is true: an update_config that set the flag has returned and the
\* flag has not been set back.
C27_NoSpawnUnderSafeMode ==
    [][\A t \in Threads : SpawnStep(t) => ~StoredSafeMode]_vars

====
